---------------------------- MODULE Spec2Model ----------------------------
(***************************************************************************)
(* A model of slipsense (src/src/App.jsx): CSV ingestion (parseLocalDate,  *)
(* handleFile), the training-set builder (groupByGrid, buildDataset) and   *)
(* the asynchronous train-and-score run (trainAndPredict) with the React   *)
(* state it publishes to.                                                  *)
(*                                                                         *)
(* Representation of values                                                *)
(*  - A text is a sequence of one-character strings.                       *)
(*  - A JavaScript number is an integer, or NaN.  Latitude, longitude and  *)
(*    magnitude are kept in tenths (15.5 is 155).                          *)
(*  - Time is counted in whole seconds: parseLocalDate builds every        *)
(*    timestamp from whole seconds, so the code's millisecond values are   *)
(*    these times 1000 and every comparison is unchanged.  The local time  *)
(*    zone is taken to be UTC.                                             *)
(***************************************************************************)
EXTENDS Integers, Sequences, FiniteSets

(***************************** JS numbers **********************************)

\* Number.NaN: a value no arithmetic of the model produces.
NaN == -2147483647

IsNaN(x) == x = NaN

\* a - b, a < b, ... of JavaScript: NaN propagates, every comparison with NaN is false.
JsSub(a, b) == IF IsNaN(a) \/ IsNaN(b) THEN NaN ELSE a - b
JsAdd(a, b) == IF IsNaN(a) \/ IsNaN(b) THEN NaN ELSE a + b
JsLt(a, b) == ~IsNaN(a) /\ ~IsNaN(b) /\ a < b
JsLe(a, b) == ~IsNaN(a) /\ ~IsNaN(b) /\ a <= b
JsGt(a, b) == ~IsNaN(a) /\ ~IsNaN(b) /\ a > b
JsGe(a, b) == ~IsNaN(a) /\ ~IsNaN(b) /\ a >= b

(******************************* texts *************************************)

IsDigit(c) == c \in {"0", "1", "2", "3", "4", "5", "6", "7", "8", "9"}

DigitVal(c) ==
  CASE c = "0" -> 0 [] c = "1" -> 1 [] c = "2" -> 2 [] c = "3" -> 3 [] c = "4" -> 4
    [] c = "5" -> 5 [] c = "6" -> 6 [] c = "7" -> 7 [] c = "8" -> 8 [] c = "9" -> 9

DigitChar(d) ==
  CASE d = 0 -> "0" [] d = 1 -> "1" [] d = 2 -> "2" [] d = 3 -> "3" [] d = 4 -> "4"
    [] d = 5 -> "5" [] d = 6 -> "6" [] d = 7 -> "7" [] d = 8 -> "8" [] d = 9 -> "9"

\* The decimal text of a natural number (used to write the model's CSV cells).
RECURSIVE NumText(_)
NumText(n) == IF n < 10 THEN <<DigitChar(n)>> ELSE NumText(n \div 10) \o <<DigitChar(n % 10)>>

\* String.prototype.trim
RECURSIVE TrimLeft(_)
TrimLeft(s) == IF s # <<>> /\ Head(s) = " " THEN TrimLeft(Tail(s)) ELSE s

RECURSIVE TrimRight(_)
TrimRight(s) ==
  IF s # <<>> /\ s[Len(s)] = " " THEN TrimRight(SubSeq(s, 1, Len(s) - 1)) ELSE s

Trim(s) == TrimRight(TrimLeft(s))

\* s.includes(c)
Includes(s, c) == \E i \in 1..Len(s) : s[i] = c

\* s.replace(/c/g, d)
ReplaceAll(s, c, d) == [i \in 1..Len(s) |-> IF s[i] = c THEN d ELSE s[i]]

\* s.replace(c, d): the first occurrence only
ReplaceFirst(s, c, d) ==
  IF ~Includes(s, c) THEN s
  ELSE LET k == CHOOSE i \in 1..Len(s) : s[i] = c /\ \A j \in 1..(i - 1) : s[j] # c
       IN  [i \in 1..Len(s) |-> IF i = k THEN d ELSE s[i]]

\* s.split(c): the pieces between the separators, empty pieces kept
RECURSIVE Split(_, _)
Split(s, c) ==
  IF ~Includes(s, c) THEN <<s>>
  ELSE LET k == CHOOSE i \in 1..Len(s) : s[i] = c /\ \A j \in 1..(i - 1) : s[j] # c
       IN  <<SubSeq(s, 1, k - 1)>> \o Split(SubSeq(s, k + 1, Len(s)), c)

\* The value of the longest prefix of digits of s, and that prefix's length.
RECURSIVE DigitsPrefixLen(_)
DigitsPrefixLen(s) ==
  IF s # <<>> /\ IsDigit(Head(s)) THEN 1 + DigitsPrefixLen(Tail(s)) ELSE 0

RECURSIVE DigitsValue(_)
DigitsValue(s) ==
  IF s = <<>> THEN 0 ELSE 10 * DigitsValue(SubSeq(s, 1, Len(s) - 1)) + DigitVal(s[Len(s)])

\* Unary plus on a string (+d[0]): the empty text is 0, an optionally signed run of
\* digits is its value, anything else is NaN.
ToNumber(text) ==
  LET s    == Trim(text)
      neg  == s # <<>> /\ Head(s) = "-"
      body == IF neg THEN Tail(s) ELSE s
  IN  IF s = <<>> THEN 0
      ELSE IF body # <<>> /\ DigitsPrefixLen(body) = Len(body)
           THEN (IF neg THEN 0 - DigitsValue(body) ELSE DigitsValue(body))
           ELSE NaN

\* parseInt(text, 10): leading blanks skipped, an optional sign, the longest run
\* of digits; NaN when there is none.
ParseInt10(text) ==
  LET s    == TrimLeft(text)
      neg  == s # <<>> /\ Head(s) = "-"
      body == IF neg THEN Tail(s) ELSE s
      n    == DigitsPrefixLen(body)
  IN  IF n = 0 THEN NaN
      ELSE IF neg THEN 0 - DigitsValue(SubSeq(body, 1, n)) ELSE DigitsValue(SubSeq(body, 1, n))

\* parseFloat(text), in tenths: leading blanks skipped, an optional sign, digits,
\* an optional "." and fraction digits (the first one is kept); NaN when the text
\* does not start with a number.
ParseFloat(text) ==
  LET s     == TrimLeft(text)
      neg   == s # <<>> /\ Head(s) = "-"
      body  == IF neg THEN Tail(s) ELSE s
      n     == DigitsPrefixLen(body)
      rest  == SubSeq(body, n + 1, Len(body))
      fracs == IF rest # <<>> /\ Head(rest) = "." THEN DigitsPrefixLen(Tail(rest)) ELSE 0
      tenth == IF fracs > 0 THEN DigitVal(rest[2]) ELSE 0
      mag   == 10 * DigitsValue(SubSeq(body, 1, n)) + tenth
  IN  IF n = 0 /\ fracs = 0 THEN NaN
      ELSE IF neg THEN 0 - mag ELSE mag

(******************************* dates *************************************)

SecondsPerDay == 24 * 3600

\* The day number (days since 1970-01-01) of the first day of month m (1..12) of
\* year y in the proleptic Gregorian calendar.
DayFromYearMonth(y, m) ==
  LET y2  == IF m <= 2 THEN y - 1 ELSE y
      era == y2 \div 400
      yoe == y2 - era * 400
      mp  == (m + 9) % 12
      doy == (153 * mp + 2) \div 5
      doe == yoe * 365 + yoe \div 4 - yoe \div 100 + doy
  IN  era * 146097 + doe - 719468

\* new Date(year, monthIndex, day, hh, mm, ss).getTime(): NaN (an Invalid Date)
\* when a component is NaN or undefined, a year 0..99 is 1900 + year, months and
\* days out of range carry over.
MakeDate(year, monthIndex, day, hh, mm, ss) ==
  IF \E c \in {year, monthIndex, day, hh, mm, ss} : IsNaN(c) THEN NaN
  ELSE LET yr == IF year >= 0 /\ year <= 99 THEN 1900 + year ELSE year
           ym == yr + (monthIndex \div 12)
           mn == monthIndex % 12
       IN  (DayFromYearMonth(ym, mn + 1) + day - 1) * SecondsPerDay
             + hh * 3600 + mm * 60 + ss

\* The value parseLocalDate returns: null, or a Date whose getTime() is `time`
\* (NaN for an Invalid Date, which is an object and therefore truthy).
Null == [isNull |-> TRUE, time |-> NaN]
DateOf(t) == [isNull |-> FALSE, time |-> t]

\* parseLocalDate(dateStr, timeStr).  An absent cell is the empty text.  `generic`
\* is what the engine's Date parser gives for sdate + " " + t (a time or NaN): the
\* fallback for a date that does not split into three tokens.
parseLocalDate(dateStr, timeStr, generic) ==
  IF dateStr = <<>> THEN Null
  ELSE LET sdate == Trim(dateStr)
           stime == Trim(IF timeStr = <<>> THEN <<"0", "0", ":", "0", "0", ":", "0", "0">>
                                           ELSE timeStr)
           t     == ReplaceAll(stime, ".", ":")
           d     == IF Includes(sdate, "/") THEN Split(sdate, "/") ELSE Split(sdate, "-")
       IN  IF Len(d) # 3 THEN DateOf(generic)
           ELSE LET yFirst == JsGt(ToNumber(d[1]), 31)
                    y0     == IF yFirst THEN ToNumber(d[1]) ELSE ToNumber(d[3])
                    month  == ToNumber(d[2])
                    day    == IF yFirst THEN ToNumber(d[3]) ELSE ToNumber(d[1])
                    y1     == IF JsGt(y0, 2400) THEN y0 - 543 ELSE y0
                    year   == IF JsLt(y1, 100) THEN y1 + 2000 ELSE y1
                    parts  == Split(t, ":")
                    part(k) == IF k > Len(parts) THEN NaN
                               ELSE ParseInt10(IF parts[k] = <<>> THEN <<"0">> ELSE parts[k])
                IN  DateOf(MakeDate(year, JsSub(month, 1), day, part(1), part(2), part(3)))


(****************************** ingestion **********************************)

\* a || b on CSV cells: an absent or empty cell is falsy.
OrText(a, b) == IF a # <<>> THEN a ELSE b
OrStr(a, b) == IF a # "" THEN a ELSE b

\* One CSV row as Papa.parse hands it over (header: true): a text per column read
\* by handleFile, empty when the column is absent; LOCATE and PLACE as strings.
RawRow(date, time, lat, lon, mag, locate) ==
  [DATE |-> date, TIME |-> time, generic |-> NaN,
   LAT |-> lat, Latitude |-> <<>>,
   LONG |-> lon, LON |-> <<>>, Longitude |-> <<>>,
   MI |-> mag, MAG |-> <<>>, M |-> <<>>,
   LOCATE |-> locate, PLACE |-> ""]

\* The record handleFile's map callback builds for row r; isNull when the row is
\* dropped (the callback returns null).
MapRow(r) ==
  LET dt  == parseLocalDate(r.DATE, r.TIME, r.generic)
      lat == ParseFloat(ReplaceFirst(OrText(r.LAT, r.Latitude), ",", "."))
      lon == ParseFloat(ReplaceFirst(OrText(r.LONG, OrText(r.LON, r.Longitude)), ",", "."))
      mag == ParseFloat(ReplaceFirst(OrText(r.MI, OrText(r.MAG, r.M)), ",", "."))
  IN  [isNull |-> dt.isNull \/ IsNaN(lat) \/ IsNaN(lon) \/ IsNaN(mag),
       row    |-> [date |-> dt.time, lat |-> lat, lon |-> lon, mag |-> mag,
                   locate |-> OrStr(r.LOCATE, OrStr(r.PLACE, "-"))]]

\* res.data.map(...).filter(Boolean)
RECURSIVE MapFilter(_)
MapFilter(data) ==
  IF data = <<>> THEN <<>>
  ELSE LET m == MapRow(Head(data))
       IN  (IF m.isNull THEN <<>> ELSE <<m.row>>) \o MapFilter(Tail(data))

\* The places an insertion step of a sort can put e into `sorted`, comparing
\* with (a, b) => a.date - b.date: a search (linear or binary) ends behind an
\* element it did not find later than e and before one it found later.  A NaN
\* difference (an Invalid Date on either side) is "equal" to the sort: e stays
\* behind such an element.
InsertByDateOutcomes(sorted, e) ==
  {SubSeq(sorted, 1, p) \o <<e>> \o SubSeq(sorted, p + 1, Len(sorted)) :
     p \in {q \in 0..Len(sorted) :
              /\ q = 0 \/ ~JsGt(sorted[q].date, e.date)
              /\ q = Len(sorted) \/ JsGt(sorted[q + 1].date, e.date)}}

\* The arrays s.sort((a, b) => a.date - b.date) can leave.  With valid dates
\* there is one, the stable sort.  With an Invalid Date the comparator is not a
\* consistent one and the order is implementation-defined (ECMAScript,
\* Array.prototype.sort): the outcomes are those of an insertion sort that
\* searches each position in any way.
RECURSIVE SortByDateOutcomes(_)
SortByDateOutcomes(s) ==
  IF s = <<>> THEN {<<>>}
  ELSE UNION {InsertByDateOutcomes(sorted, s[Len(s)]) :
                sorted \in SortByDateOutcomes(SubSeq(s, 1, Len(s) - 1))}

(************************** grid and distance ******************************)

\* Math.cos(lat * Math.PI / 180) in thousandths, for the latitudes of the model
\* (0.1, 0.2 and 60 degrees).
CosMilli(lat) == IF lat = 600 THEN 500 ELSE 1000

\* The (gx, gy) of groupByGrid for a row at (lat, lon), for cellKm > 0:
\* degLat = cellKm / 111, gy = floor(lat / degLat),
\* gx = floor(lon / (degLat * cos(lat))).
GridKey(lat, lon, cellKm) ==
  <<(lon * 111 * 1000) \div (10 * cellKm * CosMilli(lat)), (lat * 111) \div (10 * cellKm)>>

\* groupByGrid(rows, cellKm): the cells in the order the Map first saw them, each
\* with its rows in the order of `rows`.
RECURSIVE GridKeys(_, _)
GridKeys(rows, cellKm) ==
  IF rows = <<>> THEN <<>>
  ELSE LET before == GridKeys(SubSeq(rows, 1, Len(rows) - 1), cellKm)
           key    == GridKey(rows[Len(rows)].lat, rows[Len(rows)].lon, cellKm)
       IN  IF \E i \in 1..Len(before) : before[i] = key THEN before ELSE Append(before, key)

groupByGrid(rows, cellKm) ==
  LET keys == GridKeys(rows, cellKm)
  IN  [k \in 1..Len(keys) |->
        [gx   |-> keys[k][1], gy |-> keys[k][2],
         rows |-> SelectSeq(rows, LAMBDA r : GridKey(r.lat, r.lon, cellKm) = keys[k])]]

\* haversineKm on the points of the model, in whole kilometres (rounded down):
\* A (0.1, 0.1), B (0.2, 0.2), C (0.1, -0.1), D (60, 0.1), E (60, 0.3).
haversineKm(aLat, aLon, bLat, bLon) ==
  LET a == <<aLat, aLon>>
      b == <<bLat, bLon>>
      pair(p, q) == (a = p /\ b = q) \/ (a = q /\ b = p)
  IN  IF a = b THEN 0
      ELSE IF pair(<<1, 1>>, <<2, 2>>) THEN 15
      ELSE IF pair(<<1, 1>>, <<1, -1>>) THEN 22
      ELSE IF pair(<<2, 2>>, <<1, -1>>) THEN 35
      ELSE IF pair(<<600, 1>>, <<600, 3>>) THEN 11
      ELSE 6650

(****************************** features ***********************************)

NoPriorEvent == 999999
SecondsPerHour == 3600

\* cnt, avgMag and lastTime of a list `past`, for an event at time t.  avgMag is
\* the fraction sum / cnt (in tenths) and lastTime the fraction num / den (in
\* hours): <<0, 1>> and <<999999, 1>> when past is empty.
RECURSIVE SumMag(_)
SumMag(s) == IF s = <<>> THEN 0 ELSE Head(s).mag + SumMag(Tail(s))

PastFeatures(past, t) ==
  [cnt      |-> Len(past),
   avgMag   |-> IF Len(past) # 0 THEN <<SumMag(past), Len(past)>> ELSE <<0, 1>>,
   lastTime |-> IF Len(past) # 0 THEN <<JsSub(t, past[Len(past)].date), SecondsPerHour>>
                                 ELSE <<NoPriorEvent, 1>>]

\* The training window of buildDataset for cellRows[i].
TrainPast(cellRows, i, lookbackDays) ==
  LET t         == cellRows[i].date
      lookStart == JsSub(t, lookbackDays * SecondsPerDay)
  IN  SelectSeq(cellRows, LAMBDA r : JsGe(r.date, lookStart) /\ JsLt(r.date, t))

\* A labelling that lets the event itself count as a future event (r.date >= t):
\* C1 tells it from the one of the code.
TrainLabelCountingSelf(cellRows, i, horizonDays, magThreshold) ==
  LET t            == cellRows[i].date
      horizonEnd   == JsAdd(t, horizonDays * SecondsPerDay)
      futureEvents == SelectSeq(cellRows, LAMBDA r : JsGe(r.date, t) /\ JsLe(r.date, horizonEnd))
  IN  IF \E k \in 1..Len(futureEvents) : futureEvents[k].mag >= magThreshold THEN 1 ELSE 0

\* The label of buildDataset for cellRows[i].
TrainLabel(cellRows, i, horizonDays, magThreshold) ==
  LET t            == cellRows[i].date
      horizonEnd   == JsAdd(t, horizonDays * SecondsPerDay)
      futureEvents == SelectSeq(cellRows, LAMBDA r : JsGt(r.date, t) /\ JsLe(r.date, horizonEnd))
  IN  IF \E k \in 1..Len(futureEvents) : futureEvents[k].mag >= magThreshold THEN 1 ELSE 0

\* The examples buildDataset pushes for one cell whose rows, after
\* cell.rows.sort(...), are cellRows: one for each index but the last.
CellExamples(cell, cellRows, lookbackDays, horizonDays, magThreshold) ==
  [i \in 1..(Len(cellRows) - 1) |->
    LET cur == cellRows[i]
        f   == PastFeatures(TrainPast(cellRows, i, lookbackDays), cur.date)
    IN  [X    |-> [lat |-> cur.lat, lon |-> cur.lon, cnt |-> f.cnt,
                   avgMag |-> f.avgMag, lastTime |-> f.lastTime],
         y    |-> TrainLabel(cellRows, i, horizonDays, magThreshold),
         meta |-> [cell |-> <<cell.gx, cell.gy>>, time |-> cur.date, source |-> cur.locate]]]

\* buildDataset(rows): the lists of examples it can return, cell after cell (one
\* list per way the per-cell sort can come out).  An example carries the X, y
\* and meta the code pushes.
RECURSIVE CellsExamples(_, _, _, _)
CellsExamples(cells, lookbackDays, horizonDays, magThreshold) ==
  IF cells = <<>> THEN {<<>>}
  ELSE {CellExamples(Head(cells), sorted, lookbackDays, horizonDays, magThreshold) \o rest :
          sorted \in SortByDateOutcomes(Head(cells).rows),
          rest \in CellsExamples(Tail(cells), lookbackDays, horizonDays, magThreshold)}

buildDataset(rows, cellKm, lookbackDays, horizonDays, magThreshold) ==
  CellsExamples(groupByGrid(rows, cellKm), lookbackDays, horizonDays, magThreshold)

\* The scoring window of trainAndPredict for rows[i].
ScorePast(rows, i, lookbackDays, cellKm) ==
  LET r         == rows[i]
      t         == r.date
      lookStart == JsSub(t, lookbackDays * SecondsPerDay)
  IN  SelectSeq(rows, LAMBDA e : /\ JsGe(e.date, lookStart)
                                 /\ JsLt(e.date, t)
                                 /\ haversineKm(e.lat, e.lon, r.lat, r.lon) <= cellKm)

\* The feature vector trainAndPredict builds for rows[i].
ScoreFeatures(rows, i, lookbackDays, cellKm) ==
  LET f == PastFeatures(ScorePast(rows, i, lookbackDays, cellKm), rows[i].date)
  IN  [lat |-> rows[i].lat, lon |-> rows[i].lon, cnt |-> f.cnt,
       avgMag |-> f.avgMag, lastTime |-> f.lastTime]


(*************************** the trained model *****************************)

\* The trained classifier is an opaque function of the feature vector (the
\* normalisation parameters are frozen with it): training fixes one of these
\* functions, and model.predict(...).data() evaluates it.  Probabilities are in
\* percent.
ModelKinds == {"rising", "falling"}

Probability(kind, f) ==
  LET level == IF f.cnt > 18 THEN 90 ELSE 5 * f.cnt
  IN  IF kind = "rising" THEN level ELSE 95 - level

(****************************** the program ********************************)

\* Bounds of the exploration: invocations of trainAndPredict, and uploads and
\* parameter edits, in one session.
MaxRuns == 2
MaxEdits == 2

\* The minimum sizes trainAndPredict asks for.
MinRows == 30
MinExamples == 30

DefaultCellKm == 50
DefaultLookbackDays == 30
DefaultHorizonDays == 7
DefaultMagThreshold == 40

\* The values the number inputs are set to in the model (cellKm > 0).
CellKmChoices == {20}
LookbackChoices == {10}
HorizonChoices == {35}
MagThresholdChoices == {35}

StatusIdle == ""
StatusPreparing == "preparing"
StatusTraining == "training"
StatusScoring == "scoring"
StatusDone == "done"
StatusError == "error"

VARIABLES
  localData,       \* useState([]): the ingested rows
  predictions,     \* useState([]): the published prediction list
  nextPrediction,  \* useState(null): <<>> for null, <<record>> otherwise
  cellKm, lookbackDays, horizonDays, magThreshold,
  trainingStatus,  \* useState("")
  runs,            \* the invocations of trainAndPredict so far, in order
  edits,           \* uploads and parameter edits so far
  built,           \* what the last application of buildDataset was given and returned
  scored           \* what the last application of the scoring features was given and returned

vars == <<localData, predictions, nextPrediction, cellKm, lookbackDays, horizonDays,
          magThreshold, trainingStatus, runs, edits, built, scored>>

ui == <<localData, predictions, nextPrediction, cellKm, lookbackDays, horizonDays,
        magThreshold, trainingStatus>>

NoBuilt == [applied |-> FALSE]
NoScored == [applied |-> FALSE]

\* The state after the component is constructed.
Init ==
  /\ localData = <<>>
  /\ predictions = <<>>
  /\ nextPrediction = <<>>
  /\ cellKm = DefaultCellKm
  /\ lookbackDays = DefaultLookbackDays
  /\ horizonDays = DefaultHorizonDays
  /\ magThreshold = DefaultMagThreshold
  /\ trainingStatus = StatusIdle
  /\ runs = <<>>
  /\ edits = 0
  /\ built = NoBuilt
  /\ scored = NoScored

\* What Papa.parse's complete callback computes from the rows of a file: they are
\* mapped, the dropped ones filtered out, the rest sorted.
ParsedRows(file) == SortByDateOutcomes(MapFilter(file))

\* handleFile for a file whose callback can compute any of `parsed`: the rows are
\* stored.
HandleFile(parsed) ==
  /\ edits < MaxEdits
  /\ edits' = edits + 1
  /\ \E rows \in parsed : localData' = rows
  /\ UNCHANGED <<predictions, nextPrediction, cellKm, lookbackDays, horizonDays,
                 magThreshold, trainingStatus, runs, built, scored>>

\* The onChange handlers of the four number inputs.
SetCellKm(v) ==
  /\ edits < MaxEdits
  /\ edits' = edits + 1
  /\ cellKm' = v
  /\ UNCHANGED <<localData, predictions, nextPrediction, lookbackDays, horizonDays,
                 magThreshold, trainingStatus, runs, built, scored>>

SetLookbackDays(v) ==
  /\ edits < MaxEdits
  /\ edits' = edits + 1
  /\ lookbackDays' = v
  /\ UNCHANGED <<localData, predictions, nextPrediction, cellKm, horizonDays,
                 magThreshold, trainingStatus, runs, built, scored>>

SetHorizonDays(v) ==
  /\ edits < MaxEdits
  /\ edits' = edits + 1
  /\ horizonDays' = v
  /\ UNCHANGED <<localData, predictions, nextPrediction, cellKm, lookbackDays,
                 magThreshold, trainingStatus, runs, built, scored>>

SetMagThreshold(v) ==
  /\ edits < MaxEdits
  /\ edits' = edits + 1
  /\ magThreshold' = v
  /\ UNCHANGED <<localData, predictions, nextPrediction, cellKm, lookbackDays,
                 horizonDays, trainingStatus, runs, built, scored>>

(***************************** trainAndPredict *****************************)

\* The places a run allocates tensors at.  `live` of a run is the set of places
\* with a tensor of the run not yet disposed.  The run keeps a reference to the
\* first nine; tf.sqrt(variance), xTensor.sub(mean), feat.sub(mean) and the tensor
\* model.predict returns are used once in an expression and never referred to
\* again.
TrainingTensors == {"xTensor", "yTensor", "mean", "variance", "std", "xNorm"}
TrainingAllocations == TrainingTensors \cup {"model", "sqrt(variance)", "xTensor.sub(mean)"}
EventTensors == {"feat", "featNorm"}
EventAllocations == EventTensors \cup {"feat.sub(mean)", "model.predict(featNorm)"}

\* rows.length < 30
TooFewRows(rows) == Len(rows) < MinRows

\* A gate that lets 29 examples through: C3 tells it from the one of the code.
TooFewExamplesOffByOne(examples) == Len(examples) < MinExamples - 1

\* X.length < 30
TooFewExamples(examples) == Len(examples) < MinExamples

\* A run refused at one of the two gates: alert, status back to "", return.
\* rows, lookbackDays and cellKm are what the run read from its render; i, preds
\* and kind are its locals, dropped when it ends.
RefusedRun(rows, alert) ==
  [pc |-> "refused", rows |-> rows, lookbackDays |-> lookbackDays, cellKm |-> cellKm,
   nExamples |-> 0, alert |-> alert, i |-> 0, preds |-> <<>>, kind |-> "",
   emitted |-> <<StatusPreparing, StatusIdle>>, live |-> {}]

\* A run past the gates, suspended at await model.fit(...).
FittingRun(rows, examples) ==
  [pc |-> "fit", rows |-> rows, lookbackDays |-> lookbackDays, cellKm |-> cellKm,
   nExamples |-> Len(examples), alert |-> "", i |-> 0, preds |-> <<>>, kind |-> "",
   emitted |-> <<StatusPreparing, StatusTraining>>, live |-> TrainingAllocations]

\* trainAndPredict from the click to its first await (or its return): it reads the
\* state of the render it was created in.
Invoke ==
  /\ Len(runs) < MaxRuns
  /\ IF TooFewRows(localData)
     THEN /\ runs' = Append(runs, RefusedRun(localData, "rows"))
          /\ trainingStatus' = StatusIdle
     ELSE \E examples \in buildDataset(localData, cellKm, lookbackDays, horizonDays,
                                        magThreshold) :
            IF TooFewExamples(examples)
            THEN /\ runs' = Append(runs, RefusedRun(localData, "examples"))
                 /\ trainingStatus' = StatusIdle
            ELSE /\ runs' = Append(runs, FittingRun(localData, examples))
                 /\ trainingStatus' = StatusTraining
  /\ UNCHANGED <<localData, predictions, nextPrediction, cellKm, lookbackDays,
                 horizonDays, magThreshold, edits, built, scored>>

\* The head of one pass of the scoring loop, up to await model.predict(...).data().
EnterEvent(run, i) ==
  [run EXCEPT !.pc = "predict", !.i = i, !.live = run.live \cup EventAllocations]

\* model.fit resolves with some trained model: the status moves to scoring and
\* the loop starts.
FitResolve(r) ==
  /\ r \in 1..Len(runs)
  /\ runs[r].pc = "fit"
  /\ \E kind \in ModelKinds :
       LET run == [runs[r] EXCEPT !.kind = kind,
                                  !.emitted = Append(runs[r].emitted, StatusScoring)]
       IN  runs' = [runs EXCEPT ![r] = EnterEvent(run, 1)]
  /\ trainingStatus' = StatusScoring
  /\ UNCHANGED <<localData, predictions, nextPrediction, cellKm, lookbackDays,
                 horizonDays, magThreshold, edits, built, scored>>

\* The catch block: the error status, and nothing else; the run ends.
Caught(run) ==
  [run EXCEPT !.pc = "error", !.emitted = Append(run.emitted, StatusError),
              !.i = 0, !.preds = <<>>]

\* model.fit rejects.
FitReject(r) ==
  /\ r \in 1..Len(runs)
  /\ runs[r].pc = "fit"
  /\ runs' = [runs EXCEPT ![r] = Caught(runs[r])]
  /\ trainingStatus' = StatusError
  /\ UNCHANGED <<localData, predictions, nextPrediction, cellKm, lookbackDays,
                 horizonDays, magThreshold, edits, built, scored>>

\* A scoring that reads lookbackDays and cellKm when the event is scored rather
\* than the values the run captured: C10 tells it from the one of the code.
PredictionRecordLateRead(run, i) ==
  LET e == run.rows[i]
  IN  [date |-> e.date, lat |-> e.lat, lon |-> e.lon, mag |-> e.mag, locate |-> e.locate,
       probability |-> Probability(run.kind,
                                   ScoreFeatures(run.rows, i, lookbackDays, cellKm))]

\* The record pushed for rows[i]: { ...r, probability: prob }.
PredictionRecord(run, i) ==
  LET e == run.rows[i]
  IN  [date |-> e.date, lat |-> e.lat, lon |-> e.lon, mag |-> e.mag, locate |-> e.locate,
       probability |-> Probability(run.kind,
                                   ScoreFeatures(run.rows, i, run.lookbackDays, run.cellKm))]

\* A pass that reports the scoring status again: C9 tells it from the one of
\* the code.
LeaveEventReporting(run) ==
  [run EXCEPT !.preds = Append(run.preds, PredictionRecord(run, run.i)),
              !.emitted = Append(run.emitted, StatusScoring),
              !.live = run.live \ EventTensors]

\* The rest of one pass after the await: the record is pushed, feat and featNorm
\* are disposed.
LeaveEvent(run) ==
  [run EXCEPT !.preds = Append(run.preds, PredictionRecord(run, run.i)),
              !.live = run.live \ EventTensors]

\* preds.reverse(): the list handed to setPredictions.
Reverse(s) == [i \in 1..Len(s) |-> s[Len(s) + 1 - i]]

\* A publication in input order: the amended C4 tells it from the one of the
\* code.
PublishedListInOrder(preds) == preds

PublishedList(preds) == Reverse(preds)

\* A headline that is the first record of the list: C5 tells it from the one of
\* the code.
HeadlineFirst(list) == IF list = <<>> THEN <<>> ELSE <<list[1]>>

\* [...preds].sort((a, b) => b.probability - a.probability)[0] || null, preds
\* being the reversed list: its first record of the highest probability.
Headline(list) ==
  IF list = <<>> THEN <<>>
  ELSE LET k == CHOOSE i \in 1..Len(list) :
                  /\ \A j \in 1..Len(list) : list[j].probability <= list[i].probability
                  /\ \A j \in 1..(i - 1) : list[j].probability < list[i].probability
       IN  <<list[k]>>

\* After the loop: the done status, the six training tensors disposed; the run
\* ends.
Finished(run) ==
  [run EXCEPT !.pc = "done", !.emitted = Append(run.emitted, StatusDone),
              !.live = run.live \ TrainingTensors, !.i = 0, !.preds = <<>>]

\* A prediction's data() resolves: the pass ends, and either the next pass
\* starts or the run publishes and ends.
ScoreResolve(r) ==
  /\ r \in 1..Len(runs)
  /\ runs[r].pc = "predict"
  /\ LET run == LeaveEvent(runs[r])
     IN  IF run.i < Len(run.rows)
         THEN /\ runs' = [runs EXCEPT ![r] = EnterEvent(run, run.i + 1)]
              /\ UNCHANGED <<predictions, nextPrediction, trainingStatus>>
         ELSE /\ runs' = [runs EXCEPT ![r] = Finished(run)]
              /\ predictions' = PublishedList(run.preds)
              /\ nextPrediction' = Headline(PublishedList(run.preds))
              /\ trainingStatus' = StatusDone
  /\ UNCHANGED <<localData, cellKm, lookbackDays, horizonDays, magThreshold, edits,
                 built, scored>>

\* model.predict or data() throws or rejects.
ScoreReject(r) ==
  /\ r \in 1..Len(runs)
  /\ runs[r].pc = "predict"
  /\ runs' = [runs EXCEPT ![r] = Caught(runs[r])]
  /\ trainingStatus' = StatusError
  /\ UNCHANGED <<localData, predictions, nextPrediction, cellKm, lookbackDays,
                 horizonDays, magThreshold, edits, built, scored>>

(******************************* the inputs ********************************)

Txt(n) == NumText(n)
LatA == <<"0", ".", "1">>
LonA == <<"0", ".", "1">>
LatB == <<"0", ",", "2">>
LonB == <<"0", ",", "2">>
LonC == <<"-", "0", ".", "1">>

\* A row of the catalogue at point A on the k-th day after 2022-12-31, magnitude
\* 3.0, dated year first.
CatalogueRow(k) ==
  RawRow(Txt(2023) \o <<"-">> \o Txt(1) \o <<"-">> \o Txt(k), <<>>, LatA, LonA,
         <<"3", ".", "0">>, "A")

Catalogue(n) == [k \in 1..n |-> CatalogueRow(k)]

\* A row at point B, 10 January 2023 12:30:00 written day first in the Buddhist
\* era with dots in the time, magnitude 5.0 with a decimal comma.
StrongRowB ==
  RawRow(Txt(10) \o <<"/">> \o Txt(1) \o <<"/">> \o Txt(2566),
         Txt(12) \o <<".">> \o Txt(30) \o <<".">> \o Txt(0), LatB, LonB,
         <<"5", ",", "0">>, "B")

\* The uploads of the session model: catalogues around the two minimum sizes.
Files ==
  {Catalogue(29), Catalogue(30), <<StrongRowB>> \o Catalogue(30)}

Uploads == {ParsedRows(f) : f \in Files}

\* Rows of the small catalogues: three events at A on 1 January, 11 January and
\* 10 February 2023 (T, T + 10 days, T + 40 days) of magnitude 3.0, 3.0 and 5.0,
\* one at C on 16 January, one whose TIME has no seconds (an Invalid Date), one
\* with no latitude, one whose date takes the generic parser (5 January).
SmallRows ==
  {RawRow(Txt(1) \o <<"/">> \o Txt(1) \o <<"/">> \o Txt(2023), <<>>, LatA, LonA,
          <<"3", ".", "0">>, "T"),
   RawRow(Txt(11) \o <<"/">> \o Txt(1) \o <<"/">> \o Txt(23), <<>>, LatA, LonA,
          <<"3", ".", "0">>, "T10"),
   RawRow(Txt(2023) \o <<"-">> \o Txt(2) \o <<"-">> \o Txt(10), <<>>, LatA, LonA,
          <<"5", ".", "0">>, "T40"),
   RawRow(Txt(16) \o <<"/">> \o Txt(1) \o <<"/">> \o Txt(2566), <<>>, LatA, LonC,
          <<"4", ",", "0">>, "C"),
   RawRow(Txt(20) \o <<"/">> \o Txt(1) \o <<"/">> \o Txt(2023), Txt(12) \o <<":">> \o Txt(30),
          LatA, LonA, <<"5", ".", "0">>, "noSeconds"),
   RawRow(Txt(2) \o <<"/">> \o Txt(1) \o <<"/">> \o Txt(2023), <<>>, <<"x">>, LonA,
          <<"3", ".", "0">>, "noLat"),
   [RawRow(Txt(2023) \o <<".">> \o Txt(1) \o <<".">> \o Txt(5), <<>>, LatA, LonA,
           <<"3", ".", "0">>, "dotted")
      EXCEPT !.generic = MakeDate(2023, 0, 5, 0, 0, 0)]}

\* The longest small file uploaded, and the longest one the pure functions are
\* applied to.
MaxIngestRows == 3
MaxFileRows == 4

IngestFiles == UNION {[1..n -> SmallRows] : n \in 0..MaxIngestRows}
SmallFiles == UNION {[1..n -> SmallRows] : n \in 0..MaxFileRows}

SmallUploads == {ParsedRows(f) : f \in IngestFiles}

\* What handleFile can store for the small files.
SmallDatasets == UNION {ParsedRows(f) : f \in SmallFiles}

(************************* the pure functions applied **********************)

\* buildDataset applied to the current rows and parameters.
ApplyBuildDataset ==
  /\ ~built.applied /\ ~scored.applied
  /\ \E examples \in buildDataset(localData, cellKm, lookbackDays, horizonDays, magThreshold) :
       built' = [applied |-> TRUE, rows |-> localData, cellKm |-> cellKm,
                 lookbackDays |-> lookbackDays, horizonDays |-> horizonDays,
                 magThreshold |-> magThreshold, examples |-> examples]
  /\ UNCHANGED <<ui, runs, edits, scored>>

\* The scoring features of rows[i] computed from the current rows and parameters.
ApplyScoreFeatures(i) ==
  /\ ~built.applied /\ ~scored.applied
  /\ i \in 1..Len(localData)
  /\ scored' = [applied |-> TRUE, rows |-> localData, i |-> i, cellKm |-> cellKm,
                lookbackDays |-> lookbackDays,
                feat |-> ScoreFeatures(localData, i, lookbackDays, cellKm)]
  /\ UNCHANGED <<ui, runs, edits, built>>

(***************************** specifications ******************************)

\* The session: uploads, parameter edits and train-and-score runs.
Next ==
  \/ \E parsed \in Uploads : HandleFile(parsed)
  \/ \E v \in CellKmChoices : SetCellKm(v)
  \/ \E v \in LookbackChoices : SetLookbackDays(v)
  \/ \E v \in HorizonChoices : SetHorizonDays(v)
  \/ \E v \in MagThresholdChoices : SetMagThreshold(v)
  \/ Invoke
  \/ \E r \in 1..MaxRuns : FitResolve(r)
  \/ \E r \in 1..MaxRuns : FitReject(r)
  \/ \E r \in 1..MaxRuns : ScoreResolve(r)
  \/ \E r \in 1..MaxRuns : ScoreReject(r)

Spec == Init /\ [][Next]_vars

\* A promise the run awaits is settled, one way or the other.
Settle(r) == FitReject(r) \/ ScoreReject(r) \/ FitResolve(r) \/ ScoreResolve(r)

FairSpec == Spec /\ \A r \in 1..MaxRuns : WF_vars(Settle(r))

\* Ingestion alone: uploads of small files with rows of every kind.
NextIngest == \E parsed \in SmallUploads : HandleFile(parsed)

SpecIngest == Init /\ [][NextIngest]_vars

\* buildDataset and the scoring features on what handleFile can store, under the
\* parameters the inputs can be set to.
InitData ==
  /\ localData \in SmallDatasets
  /\ predictions = <<>>
  /\ nextPrediction = <<>>
  /\ cellKm \in {DefaultCellKm} \cup CellKmChoices
  /\ lookbackDays \in {DefaultLookbackDays} \cup LookbackChoices
  /\ horizonDays \in {DefaultHorizonDays} \cup HorizonChoices
  /\ magThreshold \in {DefaultMagThreshold} \cup MagThresholdChoices
  /\ trainingStatus = StatusIdle
  /\ runs = <<>>
  /\ edits = 0
  /\ built = NoBuilt
  /\ scored = NoScored

NextData == ApplyBuildDataset \/ \E i \in 1..MaxFileRows : ApplyScoreFeatures(i)

SpecData == InitData /\ [][NextData]_vars


(******************************** claims ***********************************)

Last(s) == s[Len(s)]
CellOf(e, km) == GridKey(e.lat, e.lon, km)

\* The rows are in time order: every date is valid and none precedes the one
\* before it.
TimeSorted(rows) ==
  /\ \A i \in 1..Len(rows) : ~IsNaN(rows[i].date)
  /\ \A i \in 1..(Len(rows) - 1) : rows[i].date <= rows[i + 1].date

\* The three events of the end-to-end case: same cell, T, T + 10 days, T + 40
\* days, magnitudes 3.0, 3.0, 5.0, threshold 4.0, horizon 35 days.
EndToEndCase ==
  /\ built.applied
  /\ Len(built.rows) = 3
  /\ built.magThreshold = 40
  /\ built.horizonDays = 35
  /\ TimeSorted(built.rows)
  /\ \A i \in 1..3 : CellOf(built.rows[i], built.cellKm) = CellOf(built.rows[1], built.cellKm)
  /\ built.rows[2].date = built.rows[1].date + 10 * 86400
  /\ built.rows[3].date = built.rows[1].date + 40 * 86400
  /\ <<built.rows[1].mag, built.rows[2].mag, built.rows[3].mag>> = <<30, 30, 50>>

\* C1: for a time-sorted dataset buildDataset returns, for every grid cell, one
\* example for each event of the cell but its most recent one, in time order, and
\* an example's label is 1 exactly when an event of the same cell lies in
\* (t, t + horizonDays] with a magnitude of at least the threshold; the
\* end-to-end case gets the labels 0 and 1.
C1_ExamplesAndLabels ==
  (built.applied /\ TimeSorted(built.rows)) =>
    LET rows     == built.rows
        keys     == {CellOf(rows[i], built.cellKm) : i \in 1..Len(rows)}
        RowsOf(k) == SelectSeq(rows, LAMBDA e : CellOf(e, built.cellKm) = k)
        ExOf(k)   == SelectSeq(built.examples, LAMBDA x : x.meta.cell = k)
    IN  /\ \A n \in 1..Len(built.examples) : built.examples[n].meta.cell \in keys
        /\ \A k \in keys :
             /\ Len(ExOf(k)) = Len(RowsOf(k)) - 1
             /\ \A j \in 1..Len(ExOf(k)) :
                  LET x == ExOf(k)[j]
                      e == RowsOf(k)[j]
                      strong == \E q \in 1..Len(RowsOf(k)) :
                                  /\ RowsOf(k)[q].date > e.date
                                  /\ RowsOf(k)[q].date <= e.date + built.horizonDays * 86400
                                  /\ RowsOf(k)[q].mag >= built.magThreshold
                  IN  /\ x.meta.time = e.date
                      /\ x.meta.source = e.locate
                      /\ x.X.lat = e.lat /\ x.X.lon = e.lon
                      /\ x.y = IF strong THEN 1 ELSE 0
        /\ EndToEndCase => [n \in 1..Len(built.examples) |-> built.examples[n].y] = <<0, 1>>

C1_Witness ==
  /\ EndToEndCase
  /\ Len(built.examples) = 2
  /\ built.examples[1].y = 0
  /\ built.examples[2].y = 1

\* The indices of `rows` whose date lies in [t - lookbackDays, t) and that
\* satisfy near.
WindowOf(rows, t, days, near(_)) ==
  {j \in 1..Len(rows) :
     /\ near(rows[j])
     /\ ~IsNaN(rows[j].date) /\ ~IsNaN(t)
     /\ rows[j].date >= t - days * 86400
     /\ rows[j].date < t}

\* What the claim says of a feature vector f built at time t from the window w.
FeaturesAsClaimed(f, rows, t, days, w) ==
  /\ f.cnt = Cardinality(w)
  /\ w = {} => f.avgMag[1] = 0 /\ f.lastTime = <<999999, 1>>
  /\ w # {} =>
       LET latest == CHOOSE j \in w : \A q \in w : rows[q].date <= rows[j].date
       IN  /\ f.lastTime = <<t - rows[latest].date, 3600>>
           /\ f.lastTime[1] > 0
           /\ f.lastTime[1] <= days * 24 * 3600

\* C2: every feature vector, in training (same-cell events) and in scoring
\* (events within cellKm), counts exactly the candidates dated in
\* [t - lookbackDays, t); with none, the mean magnitude is 0 and the hours since
\* the last event 999999; otherwise the hours are those since the latest of
\* them, positive and at most lookbackDays * 24.
C2_FeatureWindows ==
  /\ scored.applied =>
       LET e == scored.rows[scored.i]
           near(o) == haversineKm(o.lat, o.lon, e.lat, e.lon) <= scored.cellKm
       IN  FeaturesAsClaimed(scored.feat, scored.rows, e.date, scored.lookbackDays,
                             WindowOf(scored.rows, e.date, scored.lookbackDays, near))
  /\ built.applied =>
       \A n \in 1..Len(built.examples) :
         LET x == built.examples[n]
             same(o) == CellOf(o, built.cellKm) = x.meta.cell
         IN  FeaturesAsClaimed(x.X, built.rows, x.meta.time, built.lookbackDays,
                               WindowOf(built.rows, x.meta.time, built.lookbackDays, same))

\* The run an invocation adds in this step.
Invoked == Len(runs') = Len(runs) + 1
NewRun == runs'[Len(runs')]

\* The number of training examples a dataset yields: one per event but one per
\* grid cell.
DerivedCount(rows, km) ==
  Len(rows) - Cardinality({CellOf(rows[i], km) : i \in 1..Len(rows)})

InFlight(run) == run.pc \in {"fit", "predict"}
Ended(run) == run.pc \in {"refused", "done", "error"}

\* C3: an invocation with fewer than 30 rows, or with rows that yield fewer than
\* 30 examples, is refused: it allocates and trains nothing, never scores, leaves
\* the published list and headline as they are, and the status it ends with is
\* not the one of a failed training; any other invocation goes on to training.
C3_MinimumDataGate ==
  [][/\ Invoked =>
          IF Len(localData) < 30 \/ DerivedCount(localData, cellKm) < 30
          THEN /\ NewRun.pc = "refused"
               /\ NewRun.live = {}
               /\ NewRun.kind = ""
               /\ predictions' = predictions
               /\ nextPrediction' = nextPrediction
               /\ Last(NewRun.emitted) = trainingStatus'
               /\ trainingStatus' # "error"
               /\ \A r \in 1..Len(runs') :
                    runs'[r].pc = "error" => Last(runs'[r].emitted) # Last(NewRun.emitted)
          ELSE /\ NewRun.pc = "fit"
               /\ trainingStatus' = "training"
               /\ Last(NewRun.emitted) = "training"
     /\ \A r \in 1..Len(runs) : runs[r].pc = "refused" => runs'[r] = runs[r]]_vars

\* A run over 30 rows or more was refused for its derived examples while the
\* list of an earlier run was published.
C3_Witness ==
  \E r \in 1..Len(runs) :
    /\ runs[r].pc = "refused"
    /\ Len(runs[r].rows) >= 30
    /\ predictions # <<>>

\* The record of the list that belongs to event e.
SameEvent(p, e) ==
  /\ p.date = e.date /\ p.lat = e.lat /\ p.lon = e.lon
  /\ p.mag = e.mag /\ p.locate = e.locate

\* The step in which run r completes.
Completes(r) == r \in 1..Len(runs) /\ runs[r].pc = "predict" /\ runs'[r].pc = "done"

\* C4 as claimed: when a run over n events completes, the published list holds
\* n records and its i-th record is the one of the i-th input event.
C4_InputOrder ==
  [][\A r \in 1..MaxRuns :
       Completes(r) =>
         /\ Len(predictions') = Len(runs[r].rows)
         /\ \A i \in 1..Len(predictions') : SameEvent(predictions'[i], runs[r].rows[i])]_vars

\* C4, amended: when a run over n events completes, the published list holds n
\* records, one per input event, in reverse input order: its i-th record is the
\* one of the (n + 1 - i)-th input event.
C4_ReverseInputOrder ==
  [][\A r \in 1..MaxRuns :
       Completes(r) =>
         /\ Len(predictions') = Len(runs[r].rows)
         /\ \A i \in 1..Len(predictions') :
              SameEvent(predictions'[i], runs[r].rows[Len(runs[r].rows) + 1 - i])]_vars

C4_Witness ==
  /\ \E r \in 1..Len(runs) : runs[r].pc = "done" /\ Len(predictions) = Len(runs[r].rows)
  /\ Len(predictions) >= 31
  /\ predictions[1].date > predictions[Len(predictions)].date

\* C5: once a run has completed, the headline is a record of the published list
\* whose probability no record of the list exceeds; it is null only if the list
\* is empty.
C5_HeadlineIsMaximum ==
  (\E r \in 1..Len(runs) : runs[r].pc = "done") =>
    /\ nextPrediction = <<>> => predictions = <<>>
    /\ nextPrediction # <<>> =>
         /\ \E i \in 1..Len(predictions) : predictions[i] = nextPrediction[1]
         /\ \A i \in 1..Len(predictions) :
              predictions[i].probability <= nextPrediction[1].probability

\* A completed run whose headline is not the first record of the list, the
\* list holding lower probabilities too.
C5_Witness ==
  /\ \E r \in 1..Len(runs) : runs[r].pc = "done"
  /\ nextPrediction # <<>>
  /\ nextPrediction[1] # predictions[1]
  /\ \E i \in 1..Len(predictions) : predictions[i].probability < nextPrediction[1].probability

\* C6: at most one run is in flight (suspended at an await) at a time.
C6_OneRunInFlight ==
  Cardinality({r \in 1..Len(runs) : InFlight(runs[r])}) <= 1

\* C7: a run that has ended holds no tensor.
C7_TensorsReleased ==
  \A r \in 1..Len(runs) : Ended(runs[r]) => runs[r].live = {}

\* C8: the stored dataset holds only rows with a valid timestamp and numeric
\* latitude, longitude and magnitude, in non-decreasing order of time.
C8_StoredRowsValidAndSorted ==
  /\ \A i \in 1..Len(localData) :
       /\ ~IsNaN(localData[i].date)
       /\ ~IsNaN(localData[i].lat) /\ ~IsNaN(localData[i].lon) /\ ~IsNaN(localData[i].mag)
  /\ \A i \in 1..(Len(localData) - 1) : localData[i].date <= localData[i + 1].date

\* The phases in order, and the statuses a run stops after.
Phases == <<"preparing", "training", "scoring", "done">>
Terminal == {"done", "error", ""}

\* The k-th status a run emits is the k-th phase, or, as its last one, a
\* terminal status.
StatusesInOrder(log) ==
  \A k \in 1..Len(log) :
    \/ k <= Len(Phases) /\ log[k] = Phases[k]
    \/ k = Len(log) /\ log[k] \in Terminal
    
\* C9: the statuses of a run come in the order preparing, training, scoring,
\* done, none twice and none after a terminal one, and a run past the gate ends
\* with the status done or error.
C9_StatusOrder ==
  /\ [](\A r \in 1..Len(runs) :
          /\ StatusesInOrder(runs[r].emitted)
          /\ \A k \in 1..(Len(runs[r].emitted) - 1) : runs[r].emitted[k] \notin Terminal)
  /\ \A r \in 1..MaxRuns :
       (r <= Len(runs) /\ runs[r].pc = "fit")
         ~> /\ r <= Len(runs)
            /\ runs[r].pc \in {"done", "error"}
            /\ Last(runs[r].emitted) \in {"done", "error"}

\* Two runs have ended, one done after all four phases, one in error while
\* scoring.
C9_Witness ==
  /\ \E r \in 1..Len(runs) : runs[r].emitted = <<"preparing", "training", "scoring", "done">>
  /\ \E r \in 1..Len(runs) : runs[r].emitted = <<"preparing", "training", "scoring", "error">>

\* The list a completed run publishes, from what it read when it started.
ListOfRun(run) ==
  LET n == Len(run.rows)
  IN  [i \in 1..n |->
        LET e == run.rows[n + 1 - i]
        IN  [date |-> e.date, lat |-> e.lat, lon |-> e.lon, mag |-> e.mag,
             locate |-> e.locate,
             probability |-> Probability(run.kind,
                               ScoreFeatures(run.rows, n + 1 - i, run.lookbackDays, run.cellKm))]]

\* C10: the published list and headline are both empty, or both come from one
\* completed run, computed from the rows and parameters that run read when it
\* started.
C10_PublishedTogether ==
  \/ predictions = <<>> /\ nextPrediction = <<>>
  \/ \E r \in 1..Len(runs) :
       /\ runs[r].pc = "done"
       /\ predictions = ListOfRun(runs[r])
       /\ nextPrediction # <<>>
       /\ \E i \in 1..Len(predictions) : predictions[i] = nextPrediction[1]
       /\ \A i \in 1..Len(predictions) :
            predictions[i].probability <= nextPrediction[1].probability

\* Two runs have completed that read different parameters, the second one
\* started with parameters edited while the first was in flight, and what is
\* published differs from what the parameters now set would give.
C10_Witness ==
  /\ Len(runs) = 2
  /\ runs[1].pc = "done" /\ runs[2].pc = "done"
  /\ runs[1].lookbackDays # runs[2].lookbackDays
  /\ ListOfRun(runs[1]) # ListOfRun(runs[2])
  /\ predictions # <<>>

=============================================================================
